---- MODULE Spec2Model ----
(***************************************************************************)
(* Model of gocardless/resources.py: the Resource constructor, equality    *)
(* and hashing, the typed fetches, cancel() and Bill.create_under_preauth. *)
(*                                                                         *)
(* Python values are tagged records.  A str is a sequence of tokens, so    *)
(* that str.replace, re.sub and strptime are computed on its parts.        *)
(* A Python dict is a function from its keys to values.  An instance is    *)
(* its class name and its attribute dictionary d (what setattr writes and  *)
(* attribute lookup reads), together with the two constructor arguments    *)
(* it was built from (arg_attrs, arg_client), kept as history.             *)
(***************************************************************************)
EXTENDS Integers, Sequences, FiniteSets, TLC

VARIABLES objs, in_attrs, gc_client, calls, ncalls, last

vars == <<objs, in_attrs, gc_client, calls, ncalls, last>>

(***************************************************************************)
(* Values                                                                  *)
(***************************************************************************)
NoneV == [t |-> "none"]
Str(toks) == [t |-> "str", s |-> toks]
IntV(n) == [t |-> "int", n |-> n]
Dict(m) == [t |-> "dict", m |-> m]
List(xs) == [t |-> "list", xs |-> xs]
Transport(c) == [t |-> "transport", c |-> c]
DateTime(y, mo, dd, h, mi, sec) ==
  [t |-> "datetime", y |-> y, mo |-> mo, dd |-> dd, h |-> h, mi |-> mi, sec |-> sec]

EmptyDict == [k \in {} |-> NoneV]

\* the outcome of a call: a returned value, or a raised exception (with the
\* field being processed when a date or reference field raised it)
Ok(v) == [ok |-> TRUE, err |-> "", at |-> "", val |-> v]
Raise(e) == [ok |-> FALSE, err |-> e, at |-> "", val |-> NoneV]
RaiseAt(e, fieldname) == [ok |-> FALSE, err |-> e, at |-> fieldname, val |-> NoneV]

(***************************************************************************)
(* The classes of the module                                               *)
(***************************************************************************)
Klasses == {"Merchant", "Subscription", "PreAuthorization", "Bill", "User"}

\* the class attribute endpoint, as tokens around the ":id" placeholder
endpoint(klass) ==
  CASE klass = "Merchant" -> <<"/merchants/", ":id">>
    [] klass = "Subscription" -> <<"/subscriptions/", ":id">>
    [] klass = "PreAuthorization" -> <<"/pre_authorizations/", ":id">>
    [] klass = "Bill" -> <<"/bills/", ":id">>
    [] klass = "User" -> <<"/users/", ":id">>

\* the date_fields a class body declares (User declares none)
own_date_fields(klass) ==
  CASE klass = "Resource" -> <<"created_at">>
    [] klass = "Merchant" -> <<"next_payout_date">>
    [] klass = "Subscription" -> <<"expires_at", "next_interval_start">>
    [] klass = "PreAuthorization" -> <<"expires_at", "next_interval_start">>
    [] klass = "Bill" -> <<"paid_at">>
    [] OTHER -> <<>>

declares_date_fields(klass) == klass # "User"

\* ResourceMetaClass.__new__: a class that declares date_fields gets those
\* of its base appended; one that declares none inherits the base's list
ResourceMetaClass_new(klass, base_fields) ==
  IF declares_date_fields(klass)
  THEN own_date_fields(klass) \o base_fields
  ELSE base_fields

date_fields(klass) ==
  IF klass = "Resource"
  THEN own_date_fields("Resource")
  ELSE ResourceMetaClass_new(klass, own_date_fields("Resource"))

reference_fields(klass) ==
  CASE klass = "Subscription" -> <<"user_id", "merchant_id">>
    [] klass = "PreAuthorization" -> <<"user_id", "merchant_id">>
    [] klass = "Bill" -> <<"merchant_id", "user_id">>
    [] OTHER -> <<>>

\* methods a class defines besides those of Resource
has_cancel(klass) == klass \in {"Subscription", "PreAuthorization"}

(***************************************************************************)
(* String operations                                                       *)
(***************************************************************************)
RECURSIVE str_replace(_, _, _)
\* str.replace(old, new): every occurrence of the token old becomes new
str_replace(toks, old, new) ==
  IF toks = <<>> THEN <<>>
  ELSE (IF Head(toks) = old THEN new ELSE <<Head(toks)>>)
         \o str_replace(Tail(toks), old, new)

ApiPrefix == "/api/v1"

\* re.sub(".*/api/v1", "", uri): the greedy match ends at the last
\* occurrence of /api/v1; without an occurrence the uri is returned whole
re_sub_api_prefix(toks) ==
  LET hits == {i \in 1..Len(toks) : toks[i] = ApiPrefix}
  IN IF hits = {} THEN toks
     ELSE LET lst == CHOOSE i \in hits : \A j \in hits : j <= i
          IN SubSeq(toks, lst + 1, Len(toks))

\* the decimal fields strptime reads, by their text
NumVal ==
  [x \in {"2013", "00", "01", "1", "02", "05", "5", "13", "30"} |->
     CASE x = "2013" -> 2013
       [] x = "00" -> 0
       [] x \in {"01", "1"} -> 1
       [] x = "02" -> 2
       [] x \in {"05", "5"} -> 5
       [] x = "13" -> 13
       [] x = "30" -> 30]

DaysIn(y, mo) ==
  IF mo = 2 THEN (IF y % 4 = 0 /\ (y % 100 # 0 \/ y % 400 = 0) THEN 29 ELSE 28)
  ELSE IF mo \in {4, 6, 9, 11} THEN 30 ELSE 31

\* datetime.datetime.strptime(val, "%Y-%m-%dT%H:%M:%SZ")
strptime(val) ==
  IF val.t # "str" THEN Raise("TypeError")
  ELSE LET s == val.s
       IN IF \/ Len(s) # 12
             \/ <<s[2], s[4], s[6], s[8], s[10], s[12]>> # <<"-", "-", "T", ":", ":", "Z">>
             \/ \E i \in {1, 3, 5, 7, 9, 11} : s[i] \notin DOMAIN NumVal
          THEN Raise("ValueError")
          ELSE LET y == NumVal[s[1]]
                   mo == NumVal[s[3]]
                   dd == NumVal[s[5]]
                   h == NumVal[s[7]]
                   mi == NumVal[s[9]]
                   sec == NumVal[s[11]]
               IN IF /\ mo \in 1..12
                     /\ dd \in 1..DaysIn(y, mo)
                     /\ h \in 0..23
                     /\ mi \in 0..59
                     /\ sec \in 0..59
                  THEN Ok(DateTime(y, mo, dd, h, mi, sec))
                  ELSE Raise("ValueError")

\* fieldname.replace("_id", "")
strip_id(fieldname) ==
  CASE fieldname = "user_id" -> "user"
    [] fieldname = "merchant_id" -> "merchant"
    [] OTHER -> fieldname

\* utils.singularize(utils.camelize(name))
singular_camel(name) ==
  CASE name = "user" -> "User"
    [] name = "users" -> "User"
    [] name = "merchant" -> "Merchant"
    [] name = "bills" -> "Bill"
    [] name = "subscriptions" -> "Subscription"
    [] name = "pre_authorizations" -> "PreAuthorization"
    [] OTHER -> "Unknown"

\* Resource._get_klass_from_name: getattr(module, ...) raises AttributeError
\* for a name the module does not define
get_klass_from_name(name) ==
  LET k == singular_camel(name)
  IN IF k \in Klasses THEN Ok(k) ELSE Raise("AttributeError")

(***************************************************************************)
(* Resource.__init__                                                       *)
(***************************************************************************)
\* setattr(self, name, value) on the attribute dictionary d
SetAttr(d, name, value) == (name :> value) @@ d

\* dict.pop(key) on a dict known to hold key
Pop(m, key) == [k \in DOMAIN m \ {key} |-> m[k]]

\* types.MethodType(get_resources, self, ...): the closure's captured
\* the_path and the_klass; self is the instance the method is found on
get_resources_method(the_path, the_klass) ==
  [t |-> "method", f |-> "get_resources", the_path |-> the_path, the_klass |-> the_klass]

\* types.MethodType(get_referenced_resource, self, ...)
get_referenced_resource_method(the_klass, the_id) ==
  [t |-> "method", f |-> "get_referenced_resource", the_klass |-> the_klass,
   the_id |-> the_id]

\* lines 52-73: one bound method per entry of sub_resource_uris
init_sub_resources(d, attrs) ==
  IF "sub_resource_uris" \notin DOMAIN attrs THEN Ok([d |-> d, attrs |-> attrs])
  ELSE LET uris == attrs["sub_resource_uris"]
           rest == Pop(attrs, "sub_resource_uris")
       IN IF uris.t # "dict" THEN Raise("AttributeError")
          ELSE IF \E n \in DOMAIN uris.m : uris.m[n].t # "str" THEN Raise("TypeError")
          ELSE IF \E n \in DOMAIN uris.m : ~get_klass_from_name(n).ok
          THEN Raise("AttributeError")
          ELSE Ok([d |-> [n \in DOMAIN uris.m |->
                            get_resources_method(re_sub_api_prefix(uris.m[n].s),
                                                 get_klass_from_name(n).val)] @@ d,
                   attrs |-> rest])

RECURSIVE init_date_fields(_, _, _)
\* lines 75-81 with a value that does not parse stored as None instead of
\* raising
init_date_fields_swallow(fields, d, attrs) ==
  IF fields = <<>> THEN Ok([d |-> d, attrs |-> attrs])
  ELSE LET fieldname == Head(fields)
       IN IF fieldname \notin DOMAIN attrs THEN RaiseAt("KeyError", fieldname)
          ELSE LET val == attrs[fieldname]
                   parsed == IF val # NoneV THEN strptime(val) ELSE Ok(NoneV)
               IN init_date_fields(Tail(fields),
                                   SetAttr(d, fieldname,
                                           IF parsed.ok THEN parsed.val ELSE NoneV),
                                   Pop(attrs, fieldname))

\* lines 75-81, for the fields not yet processed
init_date_fields(fields, d, attrs) ==
  IF fields = <<>> THEN Ok([d |-> d, attrs |-> attrs])
  ELSE LET fieldname == Head(fields)
       IN IF fieldname \notin DOMAIN attrs THEN RaiseAt("KeyError", fieldname)
          ELSE LET val == attrs[fieldname]
                   rest == Pop(attrs, fieldname)
               IN IF val # NoneV
                  THEN LET parsed == strptime(val)
                       IN IF parsed.ok
                          THEN init_date_fields(Tail(fields),
                                                SetAttr(d, fieldname, parsed.val), rest)
                          ELSE RaiseAt(parsed.err, fieldname)
                  ELSE init_date_fields(Tail(fields), SetAttr(d, fieldname, NoneV), rest)

RECURSIVE init_reference_fields(_, _, _)
\* lines 83-92, for the fields not yet processed
init_reference_fields(fields, d, attrs) ==
  IF fields = <<>> THEN Ok([d |-> d, attrs |-> attrs])
  ELSE LET fieldname == Head(fields)
       IN IF fieldname \notin DOMAIN attrs THEN RaiseAt("KeyError", fieldname)
          ELSE LET id == attrs[fieldname]
                   rest == Pop(attrs, fieldname)
                   name == strip_id(fieldname)
                   klass == get_klass_from_name(name)
               IN IF ~klass.ok THEN klass
                  ELSE init_reference_fields(
                         Tail(fields),
                         SetAttr(d, name, get_referenced_resource_method(klass.val, id)),
                         rest)

\* lines 94-95: every key left in the working copy is set on the instance
init_plain_fields(d, attrs) == attrs @@ d

\* line 49: the retained mapping is a copy of the working copy made before
\* any key is popped
raw_attrs_of(attrs) == Dict(attrs)

\* line 51
client_of(client) == client

\* Resource.__init__(self, in_attrs, client), called as klass(in_attrs, client)
Resource_init(klass, in_attrs_val, client) ==
  IF in_attrs_val.t # "dict" THEN Raise("AttributeError")
  ELSE LET attrs == in_attrs_val.m
       IN IF "id" \notin DOMAIN attrs THEN RaiseAt("KeyError", "id")
          ELSE LET d0 == SetAttr(SetAttr(SetAttr(EmptyDict, "_raw_attrs", raw_attrs_of(attrs)),
                                         "id", attrs["id"]),
                                 "client", client_of(client))
                   s1 == init_sub_resources(d0, attrs)
               IN IF ~s1.ok THEN s1
                  ELSE LET s2 == init_date_fields(date_fields(klass), s1.val.d, s1.val.attrs)
                       IN IF ~s2.ok THEN s2
                          ELSE LET s3 == init_reference_fields(reference_fields(klass),
                                                               s2.val.d, s2.val.attrs)
                               IN IF ~s3.ok THEN s3
                                  ELSE Ok([t |-> "instance",
                                           klass |-> klass,
                                           d |-> init_plain_fields(s3.val.d, s3.val.attrs),
                                           arg_attrs |-> in_attrs_val,
                                           arg_client |-> client])

\* attribute lookup self.<name>: the instance dictionary, then the class
HasAttr(inst, name) ==
  \/ name \in DOMAIN inst.d
  \/ name = "endpoint"
  \/ name = "cancel" /\ has_cancel(inst.klass)

GetAttr(inst, name) ==
  IF name \in DOMAIN inst.d THEN inst.d[name]
  ELSE IF name = "endpoint" THEN Str(endpoint(inst.klass))
  ELSE [t |-> "method", f |-> name]

(***************************************************************************)
(* The transport (gocardless.Client) and the methods that use it.          *)
(* Each returns its result and the transport calls it made.  reply is what *)
(* the transport answers: Ok(value) or a raised transport error.           *)
(***************************************************************************)
Call(m, path, client, body) == [m |-> m, path |-> path, c |-> client.c, body |-> body]

Done(out, cs) == [out |-> out, calls |-> cs]

\* client.api_get(path) / api_put(path) / api_post(path, params): a value
\* that is no transport has no such method
api_call(m, client, path, body, reply) ==
  IF client.t # "transport" THEN Done(Raise("AttributeError"), <<>>)
  ELSE Done(reply, <<Call(m, path, client, body)>>)

\* Resource.find_with_client(cls, id, client)
find_with_client(cls, id, client, reply) ==
  IF id.t # "str" THEN Done(Raise("TypeError"), <<>>)
  ELSE LET path == str_replace(endpoint(cls), ":id", id.s)
           got == api_call("GET", client, path, NoneV, reply)
       IN IF ~got.out.ok THEN got
          ELSE Done(Resource_init(cls, got.out.val, client), got.calls)

\* find without the check of gocardless.client
find_unguarded(cls, id, default_client, reply) ==
  find_with_client(cls, id, default_client, reply)

\* Resource.find(cls, id), with gocardless.client as it is now
find(cls, id, default_client, reply) ==
  IF default_client = NoneV THEN Done(Raise("ClientError"), <<>>)
  ELSE find_with_client(cls, id, default_client, reply)

\* get_referenced_resource(inst), line 87: self.client is read at the call
get_referenced_resource(inst, method, reply) ==
  find_with_client(method.the_klass, method.the_id, GetAttr(inst, "client"), reply)

RECURSIVE materialize_all(_, _, _)
\* [the_klass(attrs, self.client) for attrs in data]
materialize_all(the_klass, data, client) ==
  IF data = <<>> THEN Ok(<<>>)
  ELSE LET one == Resource_init(the_klass, Head(data), client)
       IN IF ~one.ok THEN one
          ELSE LET more == materialize_all(the_klass, Tail(data), client)
               IN IF ~more.ok THEN more ELSE Ok(<<one.val>> \o more.val)

\* get_resources(inst), lines 65-67
get_resources(inst, method, reply) ==
  LET got == api_call("GET", GetAttr(inst, "client"), method.the_path, NoneV, reply)
  IN IF ~got.out.ok THEN got
     ELSE IF got.out.val.t # "list" THEN Done(Raise("TypeError"), got.calls)
     ELSE LET made == materialize_all(method.the_klass, got.out.val.xs,
                                      GetAttr(inst, "client"))
          IN IF ~made.ok THEN Done(made, got.calls)
             ELSE Done(Ok(List(made.val)), got.calls)

\* inst.<name>(): call whatever the attribute name holds
invoke(inst, name, reply) ==
  IF ~HasAttr(inst, name) THEN Done(Raise("AttributeError"), <<>>)
  ELSE LET method == GetAttr(inst, name)
       IN IF method.t # "method" THEN Done(Raise("TypeError"), <<>>)
          ELSE IF method.f = "get_referenced_resource"
          THEN get_referenced_resource(inst, method, reply)
          ELSE get_resources(inst, method, reply)

\* the assignment self.status = result['status'], line 138 / 153
set_status(inst, value) == [inst EXCEPT !.d = SetAttr(@, "status", value)]

\* Subscription.cancel / PreAuthorization.cancel: the result, the calls and
\* the instance afterwards
cancel(inst, reply) ==
  LET unchanged(r) == [out |-> r.out, calls |-> r.calls, inst |-> inst]
  IN IF ~HasAttr(inst, "cancel") THEN unchanged(Done(Raise("AttributeError"), <<>>))
     ELSE IF GetAttr(inst, "cancel").t # "method"
     THEN unchanged(Done(Raise("TypeError"), <<>>))
     ELSE IF GetAttr(inst, "endpoint").t # "str" \/ GetAttr(inst, "id").t # "str"
     THEN unchanged(Done(Raise("TypeError"), <<>>))
     ELSE LET path == str_replace(GetAttr(inst, "endpoint").s, ":id", GetAttr(inst, "id").s)
                        \o <<"/cancel">>
              got == api_call("PUT", GetAttr(inst, "client"), path, NoneV, reply)
          IN IF ~got.out.ok THEN unchanged(got)
             ELSE IF got.out.val.t # "dict" THEN unchanged(Done(Raise("TypeError"), got.calls))
             ELSE IF "status" \notin DOMAIN got.out.val.m
             THEN unchanged(Done(Raise("KeyError"), got.calls))
             ELSE [out |-> Ok(NoneV), calls |-> got.calls,
                   inst |-> set_status(inst, got.out.val.m["status"])]

\* Python truth value of an argument
Truthy(v) ==
  CASE v.t = "none" -> FALSE
    [] v.t = "str" -> v.s # <<>>
    [] v.t = "int" -> v.n # 0
    [] OTHER -> TRUE

\* the params with name and description always set
bill_params_always(amount, pre_auth_id, name, description) ==
  Dict("bill" :> Dict(("amount" :> amount) @@ ("pre_authorization_id" :> pre_auth_id)
                        @@ ("name" :> name) @@ ("description" :> description)))

\* lines 165-174: the params of the POST
bill_params(amount, pre_auth_id, name, description) ==
  LET base == ("amount" :> amount) @@ ("pre_authorization_id" :> pre_auth_id)
      with_name == IF Truthy(name) THEN ("name" :> name) @@ base ELSE base
      with_desc == IF Truthy(description)
                   THEN ("description" :> description) @@ with_name
                   ELSE with_name
  IN Dict("bill" :> Dict(with_desc))

\* Bill.create_under_preauth(amount, pre_auth_id, client, name, description)
create_under_preauth(amount, pre_auth_id, client, name, description, reply) ==
  LET got == api_call("POST", client, <<"/bills">>,
                      bill_params(amount, pre_auth_id, name, description), reply)
  IN IF ~got.out.ok THEN got
     ELSE Done(Resource_init("Bill", got.out.val, client), got.calls)

\* PreAuthorization.create_bill(self, amount, name, description)
create_bill(inst, amount, name, description, reply) ==
  create_under_preauth(amount, GetAttr(inst, "id"), GetAttr(inst, "client"),
                       name, description, reply)

\* Resource.__eq__ for two instances: isinstance(other, self.__class__), then
\* the comparison of the two _raw_attrs attributes
Resource_eq(self, other) ==
  IF other.klass = self.klass
  THEN GetAttr(self, "_raw_attrs") = GetAttr(other, "_raw_attrs")
  ELSE FALSE

\* the code of a token of an id, for hashing
TokCode(tok) ==
  CASE tok = "SB1" -> 11
    [] tok = "SB2" -> 12
    [] tok = "U1" -> 21
    [] tok = "M1" -> 31
    [] tok = "PA1" -> 41
    [] tok = "B1" -> 51
    [] OTHER -> 1

HashMod == 2 ^ 16

RECURSIVE str_hash(_, _)
\* the interpreter's hash of a str: a multiplicative hash, here over the
\* tokens and truncated to 16 bits
str_hash(toks, x) ==
  IF toks = <<>> THEN x
  ELSE str_hash(Tail(toks), (31 * x + TokCode(Head(toks))) % HashMod)

\* hash(v): dicts and lists are unhashable
hash_of(v) ==
  CASE v.t \in {"dict", "list"} -> Raise("TypeError")
    [] v.t = "str" -> Ok(str_hash(v.s, Len(v.s)))
    [] v.t = "int" -> Ok(v.n)
    [] OTHER -> Ok(0)

\* Resource.__hash__: hash(self._raw_attrs["id"])
Resource_hash(self) ==
  LET raw == GetAttr(self, "_raw_attrs")
  IN IF raw.t # "dict" THEN Raise("TypeError")
     ELSE IF "id" \notin DOMAIN raw.m THEN Raise("KeyError")
     ELSE hash_of(raw.m["id"])

(***************************************************************************)
(* Inputs: the raw mappings, transports and transport replies tried        *)
(***************************************************************************)
Slots == {"a", "b"}

Transports == {Transport("T1"), Transport("T2")}

IdOf(klass) ==
  CASE klass = "Merchant" -> "M1"
    [] klass = "Subscription" -> "SB1"
    [] klass = "PreAuthorization" -> "PA1"
    [] klass = "Bill" -> "B1"
    [] klass = "User" -> "U1"

Range(seq) == {seq[i] : i \in 1..Len(seq)}

\* a payload with every field the class declares: dates null, references set
Base(klass) ==
  ("id" :> Str(<<IdOf(klass)>>))
    @@ [f \in Range(date_fields(klass)) |-> NoneV]
    @@ [f \in Range(reference_fields(klass)) |->
          IF f = "user_id" THEN Str(<<"U1">>) ELSE Str(<<"M1">>)]

GoodDate == Str(<<"2013", "-", "05", "-", "01", "T", "00", ":", "00", ":", "00", "Z">>)
DateOnly == Str(<<"2013", "-", "05", "-", "01">>)
BadMonth == Str(<<"2013", "-", "13", "-", "01", "T", "00", ":", "00", ":", "00", "Z">>)
BadDay == Str(<<"2013", "-", "02", "-", "30", "T", "00", ":", "00", ":", "00", "Z">>)
ShortDate == Str(<<"2013", "-", "5", "-", "1", "T", "00", ":", "00", ":", "00", "Z">>)

BillsUri == Str(<<"https://gocardless.com", "/api/v1", "/merchants/", "M1", "/bills">>)

\* a payload of a class, by the name of what is changed in Base(klass)
Tweaked(klass, tw) ==
  LET b == Base(klass)
      first == Head(date_fields(klass))
  IN CASE tw = "none" -> b
       [] tw = "status" -> ("status" :> Str(<<"active">>)) @@ b
       [] tw = "client" -> ("client" :> Str(<<"acme">>)) @@ b
       [] tw = "accessor" -> ("user" :> Str(<<"bob">>)) @@ b
       [] tw = "raw_str" -> ("_raw_attrs" :> Str(<<"x">>)) @@ b
       [] tw = "raw_dict" ->
            ("_raw_attrs" :> Dict(("id" :> Str(<<"SB2">>)) @@ b)) @@ b
       [] tw = "date_good" -> (first :> GoodDate) @@ b
       [] tw = "date_only" -> (first :> DateOnly) @@ b
       [] tw = "bad_month" -> (first :> BadMonth) @@ b
       [] tw = "bad_day" -> (first :> BadDay) @@ b
       [] tw = "date_short" -> (first :> ShortDate) @@ b
       [] tw = "date_int" -> (first :> IntV(5)) @@ b
       [] tw = "late_bad" -> ("created_at" :> DateOnly) @@ (first :> GoodDate) @@ b
       [] tw = "two_bad" -> ("created_at" :> DateOnly) @@ (first :> BadMonth) @@ b
       [] tw = "no_created_at" -> Pop(b, "created_at")
       [] tw = "name" -> ("name" :> Str(<<"Ann">>)) @@ b
       [] tw = "bare" -> ("name" :> Str(<<"Ann">>)) @@ ("id" :> b["id"])
       [] tw = "sub" -> ("sub_resource_uris" :> Dict("bills" :> BillsUri)) @@ b
       [] tw = "sub_unknown" ->
            ("sub_resource_uris" :> Dict("widgets" :> BillsUri)) @@ b
       [] tw = "other_id" -> ("id" :> Str(<<"SB2">>)) @@ b

\* the tweaks tried on each class
TweaksOf(klass) ==
  CASE klass = "Subscription" ->
         {"none", "status", "client", "accessor", "raw_str", "raw_dict", "date_good",
          "date_short", "date_only", "bad_month", "bad_day", "date_int", "late_bad",
          "two_bad", "other_id"}
    [] klass = "User" -> {"none", "name", "bare", "no_created_at"}
    [] klass = "Merchant" -> {"none", "sub", "sub_unknown"}
    [] klass = "PreAuthorization" -> {"none", "client"}
    [] klass = "Bill" -> {"none"}

\* what a transport answers to a GET of one resource, of a list, to a PUT
\* and to a POST
TransportError == Raise("TransportError")

GetReplies ==
  {TransportError, Ok(Dict(Base("User"))), Ok(Dict(Base("Merchant"))),
   Ok(Dict(Tweaked("User", "client"))),
   Ok(List(<<>>)),
   Ok(List(<<Dict(Base("Bill")), Dict(Tweaked("Bill", "client"))>>)),
   Ok(List(<<Dict(Base("Bill")), Dict(Tweaked("Bill", "date_only"))>>))}

PutReplies ==
  {TransportError, Ok(Dict("status" :> Str(<<"cancelled">>))), Ok(Dict(EmptyDict))}

PostReplies ==
  {TransportError, Ok(Dict(Base("Bill"))), Ok(Dict(Tweaked("Bill", "client")))}

\* accessor invocations are followed up to this many
MaxCalls == 2

(***************************************************************************)
(* The state: the instances the caller holds (objs) and the mappings it    *)
(* passed in (in_attrs), gocardless.client, the transport calls of the     *)
(* latest operation (calls), the count of accessor invocations and of the  *)
(* api_get calls they made (ncalls), and the latest operation (last).      *)
(***************************************************************************)
NoOp == [op |-> "none"]

Init ==
  /\ objs = [s \in Slots |-> NoneV]
  /\ in_attrs = [s \in Slots |-> NoneV]
  /\ gc_client = NoneV
  /\ calls = <<>>
  /\ ncalls = [inv |-> 0, get |-> 0]
  /\ last = NoOp

\* klass(in_attrs, client), the caller keeping the result in slot s
Construct(s, klass, attrs, client) ==
  /\ objs[s] = NoneV
  /\ LET r == Resource_init(klass, Dict(attrs), client)
     IN /\ objs' = IF r.ok THEN [objs EXCEPT ![s] = r.val] ELSE objs
        /\ in_attrs' = IF r.ok THEN [in_attrs EXCEPT ![s] = Dict(attrs)] ELSE in_attrs
        /\ last' = [op |-> "construct", s |-> s, klass |-> klass, attrs |-> Dict(attrs),
                    client |-> client, out |-> r]
  /\ calls' = <<>>
  /\ UNCHANGED <<gc_client, ncalls>>

\* the caller changes, at the top level, the mapping it passed in
CallerChange(s) ==
  /\ in_attrs[s] # NoneV
  /\ in_attrs' = [in_attrs EXCEPT
                    ![s] = Dict(("id" :> Str(<<"changed">>)) @@ Pop(@.m, "created_at"))]
  /\ UNCHANGED <<objs, gc_client, calls, ncalls, last>>

\* gocardless.client is set
SetClient(client) ==
  /\ gc_client' = client
  /\ UNCHANGED <<objs, in_attrs, calls, ncalls, last>>

AccessorNames == {"user", "merchant", "bills"}

\* the accessors an instance is built with: one per reference field of its
\* class and one per entry of its sub_resource_uris
DeclaredAccessors(inst) ==
  {strip_id(f) : f \in Range(reference_fields(inst.klass))}
    \cup (IF "sub_resource_uris" \in DOMAIN inst.arg_attrs.m
          THEN DOMAIN inst.arg_attrs.m["sub_resource_uris"].m
          ELSE {})

CountGets(cs) == Cardinality({i \in 1..Len(cs) : cs[i].m = "GET"})

\* objs[s].<name>(): a reference or sub-resource accessor is invoked
Invoke(s, name, reply) ==
  /\ objs[s] # NoneV
  /\ ncalls.inv < MaxCalls
  /\ LET r == invoke(objs[s], name, reply)
     IN /\ calls' = r.calls
        /\ ncalls' = [inv |-> ncalls.inv
                                 + (IF name \in DeclaredAccessors(objs[s]) THEN 1 ELSE 0),
                       get |-> ncalls.get + CountGets(r.calls)]
        /\ last' = [op |-> "invoke", s |-> s, name |-> name, reply |-> reply,
                    out |-> r.out]
  /\ UNCHANGED <<objs, in_attrs, gc_client>>

\* objs[s].cancel()
Cancel(s, reply) ==
  /\ objs[s] # NoneV
  /\ LET r == cancel(objs[s], reply)
     IN /\ objs' = [objs EXCEPT ![s] = r.inst]
        /\ calls' = r.calls
        /\ last' = [op |-> "cancel", s |-> s, pre |-> objs[s], reply |-> reply,
                    out |-> r.out]
  /\ UNCHANGED <<in_attrs, gc_client, ncalls>>

FindIds == {Str(<<"U1">>), Str(<<"SB2">>)}

\* what a transport answers to the GET of find
FindReplies(klass) ==
  {TransportError, Ok(Dict(Base(klass))), Ok(Dict(Tweaked(klass, "client"))),
   Ok(List(<<>>))}

\* klass.find(id)
Find(klass, id, reply) ==
  /\ LET r == find(klass, id, gc_client, reply)
     IN /\ calls' = r.calls
        /\ last' = [op |-> "find", klass |-> klass, id |-> id, default |-> gc_client,
                    reply |-> reply, out |-> r.out]
  /\ UNCHANGED <<objs, in_attrs, gc_client, ncalls>>

\* klass.find_with_client(id, client)
FindWithClient(klass, id, client, reply) ==
  /\ LET r == find_with_client(klass, id, client, reply)
     IN /\ calls' = r.calls
        /\ last' = [op |-> "find_with_client", klass |-> klass, id |-> id,
                    client |-> client, reply |-> reply, out |-> r.out]
  /\ UNCHANGED <<objs, in_attrs, gc_client, ncalls>>

Amounts == {IntV(500)}
Names == {NoneV, Str(<<>>), Str(<<"rent">>)}
Descriptions == {NoneV, Str(<<"May">>)}

\* Bill.create_under_preauth(amount, pre_auth_id, client, name, description)
CreateUnderPreauth(amount, pre_auth_id, client, name, description, reply) ==
  /\ LET r == create_under_preauth(amount, pre_auth_id, client, name, description, reply)
     IN /\ calls' = r.calls
        /\ last' = [op |-> "create_under_preauth", amount |-> amount,
                    pre_auth_id |-> pre_auth_id, client |-> client, name |-> name,
                    description |-> description, reply |-> reply, out |-> r.out]
  /\ UNCHANGED <<objs, in_attrs, gc_client, ncalls>>

\* objs[s].create_bill(amount, name, description) on a PreAuthorization
CreateBill(s, amount, name, description, reply) ==
  /\ objs[s] # NoneV
  /\ objs[s].klass = "PreAuthorization"
  /\ LET r == create_bill(objs[s], amount, name, description, reply)
     IN /\ calls' = r.calls
        /\ last' = [op |-> "create_bill", s |-> s, amount |-> amount,
                    pre_auth_id |-> GetAttr(objs[s], "id"),
                    client |-> GetAttr(objs[s], "client"), name |-> name,
                    description |-> description, reply |-> reply, out |-> r.out]
  /\ UNCHANGED <<objs, in_attrs, gc_client, ncalls>>

\* One instance and everything the caller can do with it
Next ==
  \/ \E klass \in Klasses, client \in Transports :
       \E tw \in TweaksOf(klass) : Construct("a", klass, Tweaked(klass, tw), client)
  \/ CallerChange("a")
  \/ \E name \in AccessorNames, reply \in GetReplies : Invoke("a", name, reply)
  \/ \E reply \in PutReplies : Cancel("a", reply)

Spec == Init /\ [][Next]_vars

\* Two instances side by side, for equality and hashing
PairKlasses == {"Subscription", "User"}

PairTweaks(klass) ==
  TweaksOf(klass) \cap {"none", "status", "raw_str", "raw_dict", "other_id", "name"}

PairNext ==
  \/ \E s \in Slots, klass \in PairKlasses, client \in Transports :
       \E tw \in PairTweaks(klass) : Construct(s, klass, Tweaked(klass, tw), client)
  \/ \E s \in Slots, name \in {"user"}, reply \in {TransportError, Ok(Dict(Base("User")))} :
       Invoke(s, name, reply)
  \/ \E s \in Slots, reply \in PutReplies : Cancel(s, reply)

PairSpec == Init /\ [][PairNext]_vars

\* The class-level operations: the fetches with the process-wide default
\* client, and the Bill factory with the PreAuthorization method over it
ClassNext ==
  \/ \E client \in Transports : SetClient(client)
  \/ \E klass \in Klasses, id \in FindIds :
       \E reply \in FindReplies(klass) : Find(klass, id, reply)
  \/ \E klass \in Klasses, id \in FindIds, client \in Transports :
       \E reply \in FindReplies(klass) : FindWithClient(klass, id, client, reply)
  \/ \E amount \in Amounts, client \in Transports, name \in Names,
        description \in Descriptions, reply \in PostReplies :
       CreateUnderPreauth(amount, Str(<<"PA1">>), client, name, description, reply)
  \/ \E client \in Transports, tw \in TweaksOf("PreAuthorization") :
       Construct("a", "PreAuthorization", Tweaked("PreAuthorization", tw), client)
  \/ \E amount \in Amounts, name \in Names, description \in Descriptions,
        reply \in PostReplies :
       CreateBill("a", amount, name, description, reply)

ClassSpec == Init /\ [][ClassNext]_vars

(***************************************************************************)
(* Properties                                                              *)
(***************************************************************************)
Malformed(v) == v # NoneV /\ ~strptime(v).ok

\* the positions of the date fields of the latest construction whose value
\* is neither null nor a timestamp of the format
BadDates ==
  LET fields == date_fields(last.klass)
  IN {i \in 1..Len(fields) :
        fields[i] \in DOMAIN last.attrs.m /\ Malformed(last.attrs.m[fields[i]])}

Least(S) == CHOOSE i \in S : \A j \in S : i <= j

\* C7: at construction a declared date field (the class's own and the
\* inherited ones) that is null becomes None and raises nothing; a value that
\* is not null and does not match the format makes the construction raise,
\* at the first such field, with no instance and no transport call.
C7_DateFields ==
  last.op = "construct" =>
    LET attrs == last.attrs.m
        fields == date_fields(last.klass)
    IN /\ \A i \in 1..Len(fields) :
            (fields[i] \in DOMAIN attrs /\ attrs[fields[i]] = NoneV)
              => /\ last.out.at # fields[i]
                 /\ last.out.ok => last.out.val.d[fields[i]] = NoneV
       /\ last.out.err = "ValueError"
            => BadDates # {} /\ last.out.at = fields[Least(BadDates)]
       /\ BadDates # {}
            => /\ ~last.out.ok
               /\ last.out.val = NoneV
               /\ objs[last.s] = NoneV
               /\ calls = <<>>
               /\ ("sub_resource_uris" \notin DOMAIN attrs
                   /\ \A j \in 1..Least(BadDates) : fields[j] \in DOMAIN attrs)
                    => /\ last.out.err \in {"ValueError", "TypeError"}
                       /\ last.out.at = fields[Least(BadDates)]

C7_Witness ==
  /\ last.op = "construct"
  /\ Cardinality(BadDates) = 2
  /\ \E f \in Range(date_fields(last.klass)) :
       f \in DOMAIN last.attrs.m /\ last.attrs.m[f] = NoneV
  /\ last.out.err = "ValueError"
  /\ last.out.at = "expires_at"

\* C8: find(id) with gocardless.client unset raises ClientError and calls no
\* transport; with it set, it makes one api_get on that client, to the class's
\* endpoint with id substituted, and returns the instance built from the
\* reply with that client (or raises what the transport or the constructor
\* raised).
C8_Find ==
  last.op = "find" =>
    IF last.default = NoneV
    THEN last.out = Raise("ClientError") /\ calls = <<>>
    ELSE /\ calls = <<[m |-> "GET",
                       path |-> <<Head(endpoint(last.klass))>> \o last.id.s,
                       c |-> last.default.c, body |-> NoneV]>>
         /\ ~last.reply.ok => last.out = last.reply
         /\ last.reply.ok => last.out = Resource_init(last.klass, last.reply.val, last.default)
         /\ last.out.ok => /\ last.out.val.klass = last.klass
                           /\ last.out.val.arg_attrs = last.reply.val
                           /\ last.out.val.arg_client = last.default

C8_Witness ==
  /\ last.op = "find"
  /\ last.default \in Transports
  /\ last.klass = "Subscription"
  /\ last.out.ok
  /\ calls # <<>>

\* an optional argument of create_under_preauth counts as provided when it
\* is neither None nor empty
Provided(v) == v # NoneV /\ v # Str(<<>>)

\* C9: create_under_preauth with a transport as client posts once, to /bills,
\* the body {bill: {amount, pre_authorization_id}} with a name key exactly
\* when a name is provided and a description key exactly when a description
\* is provided, no value of it null or empty; the Bill returned is built from
\* the reply with the same client.  create_bill passes the instance's id and
\* client on.
C9_CreateBill ==
  (last.op \in {"create_under_preauth", "create_bill"} /\ last.client \in Transports) =>
    /\ Len(calls) = 1
    /\ calls[1].m = "POST"
    /\ calls[1].path = <<"/bills">>
    /\ calls[1].c = last.client.c
    /\ calls[1].body.t = "dict"
    /\ DOMAIN calls[1].body.m = {"bill"}
    /\ LET bill == calls[1].body.m["bill"].m
       IN /\ DOMAIN bill = {"amount", "pre_authorization_id"}
                             \cup (IF Provided(last.name) THEN {"name"} ELSE {})
                             \cup (IF Provided(last.description) THEN {"description"} ELSE {})
          /\ bill["amount"] = last.amount
          /\ bill["pre_authorization_id"] = last.pre_auth_id
          /\ "name" \in DOMAIN bill => bill["name"] = last.name
          /\ "description" \in DOMAIN bill => bill["description"] = last.description
          /\ \A k \in DOMAIN bill : Provided(bill[k])
    /\ ~last.reply.ok => last.out = last.reply
    /\ last.out.ok => /\ last.out.val.klass = "Bill"
                      /\ last.out.val.arg_attrs = last.reply.val
                      /\ last.out.val.arg_client = last.client

C9_Witness ==
  /\ last.op = "create_under_preauth"
  /\ last.name = Str(<<"rent">>)
  /\ last.description = NoneV
  /\ last.out.ok
  /\ calls[1].body =
       Dict("bill" :> Dict(("amount" :> IntV(500)) @@ ("pre_authorization_id" :> Str(<<"PA1">>))
                             @@ ("name" :> Str(<<"rent">>))))

\* the path an accessor of inst is to fetch: the referenced class's endpoint
\* with the foreign id of the raw mapping, or the sub-resource uri after its
\* /api/v1 prefix
AccessorPath(inst, name) ==
  LET raw == inst.arg_attrs.m
  IN CASE name = "user" /\ "user_id" \in DOMAIN raw -> <<"/users/">> \o raw["user_id"].s
       [] name = "merchant" /\ "merchant_id" \in DOMAIN raw ->
            <<"/merchants/">> \o raw["merchant_id"].s
       [] OTHER ->
            LET uri == raw["sub_resource_uris"].m[name].s
                k == CHOOSE k \in 1..Len(uri) :
                       uri[k] = ApiPrefix /\ \A j \in (k + 1)..Len(uri) : uri[j] # ApiPrefix
            IN SubSeq(uri, k + 1, Len(uri))

\* the latest operation invoked an accessor the instance was built with
InvokedAccessor ==
  /\ last.op = "invoke"
  /\ last.name \in DeclaredAccessors(objs[last.s])

\* C1: a construction makes no transport call, and k invocations of the
\* accessors of an instance make exactly k api_get calls, each invocation one
\* call to the accessor's path.
C1_LazyNotMemoized ==
  /\ last.op = "construct" => calls = <<>>
  /\ ncalls.get = ncalls.inv
  /\ InvokedAccessor =>
       /\ Len(calls) = 1
       /\ calls[1].m = "GET"
       /\ calls[1].path = AccessorPath(objs[last.s], last.name)

\* C2: cancel() on a Subscription or PreAuthorization issues one PUT to the
\* endpoint with the id substituted, followed by /cancel; when the PUT
\* returns a mapping with a status the instance's status becomes that value
\* and nothing else of the instance changes; otherwise nothing changes.
C2_Cancel ==
  (last.op = "cancel" /\ has_cancel(last.pre.klass)) =>
    /\ Len(calls) = 1
    /\ calls[1].m = "PUT"
    /\ calls[1].path = <<Head(endpoint(last.pre.klass))>> \o last.pre.arg_attrs.m["id"].s
                         \o <<"/cancel">>
    /\ IF last.reply.ok /\ "status" \in DOMAIN last.reply.val.m
       THEN /\ objs[last.s].d["status"] = last.reply.val.m["status"]
            /\ DOMAIN objs[last.s].d = DOMAIN last.pre.d \cup {"status"}
            /\ \A k \in DOMAIN last.pre.d \ {"status"} : objs[last.s].d[k] = last.pre.d[k]
            /\ objs[last.s].klass = last.pre.klass
       ELSE objs[last.s] = last.pre

\* C3: two instances of the same class are equal exactly when the raw
\* mappings they were constructed from are equal, whatever cancel() and
\* accessor invocations have happened since.
C3_Equality ==
  \A s1, s2 \in Slots :
    (objs[s1] # NoneV /\ objs[s2] # NoneV /\ objs[s1].klass = objs[s2].klass)
      => (Resource_eq(objs[s1], objs[s2]) <=> objs[s1].arg_attrs = objs[s2].arg_attrs)

\* C4: the hash of an instance is that of the id of its raw mapping: two
\* instances built from mappings with the same id have the same hash, and
\* so have two equal instances.
C4_Hash ==
  \A s1, s2 \in Slots :
    (objs[s1] # NoneV /\ objs[s2] # NoneV)
      => /\ objs[s1].arg_attrs.m["id"] = objs[s2].arg_attrs.m["id"]
              => /\ Resource_hash(objs[s1]).ok
                 /\ Resource_hash(objs[s1]) = Resource_hash(objs[s2])
         /\ Resource_eq(objs[s1], objs[s2])
              => Resource_hash(objs[s1]) = Resource_hash(objs[s2])

\* C5: the mapping an instance retains is the mapping it was constructed
\* from, as it was then, after the construction and after every later
\* cancel(), accessor invocation and change by the caller of its own mapping.
C5_RawAttrs ==
  \A s \in Slots :
    objs[s] # NoneV => GetAttr(objs[s], "_raw_attrs") = objs[s].arg_attrs

\* C6: a raw mapping with an id and none of the date and reference fields
\* of the class materializes, into an instance whose plain fields are the
\* mapping's entries (those left after sub_resource_uris is taken out).
C6_PlainFields ==
  (/\ last.op = "construct"
   /\ "id" \in DOMAIN last.attrs.m
   /\ "sub_resource_uris" \in DOMAIN last.attrs.m
        => \A n \in DOMAIN last.attrs.m["sub_resource_uris"].m : get_klass_from_name(n).ok
   /\ DOMAIN last.attrs.m
        \cap (Range(date_fields(last.klass)) \cup Range(reference_fields(last.klass))) = {})
    => /\ last.out.ok
       /\ \A k \in DOMAIN last.attrs.m \ {"sub_resource_uris"} :
            last.out.val.d[k] = last.attrs.m[k]

\* the instances an accessor returned
Returned(out) == IF out.val.t = "list" THEN Range(out.val.xs) ELSE {out.val}

\* C10: an accessor of an instance makes its lookup on the transport the
\* instance was constructed with, and the instances it returns carry that
\* transport, whatever keys the raw mappings hold.
C10_SameTransport ==
  InvokedAccessor =>
    /\ Len(calls) = 1
    /\ calls[1].c = objs[last.s].arg_client.c
    /\ last.out.ok =>
         \A r \in Returned(last.out) : GetAttr(r, "client") = objs[last.s].arg_client

====
